---- MODULE Spec2Model ----
(***************************************************************************)
(* Model of app.py: one run of main() -- five sequential fetches, the      *)
(* data dict, risk_meter, the console transcript and the HTML report.      *)
(*                                                                         *)
(* Quotes are integers.  Headline texts and keywords are sequences of      *)
(* one-character strings, so that Python's case-sensitive substring test   *)
(* `keyword in text` is computed, not assumed.                             *)
(*                                                                         *)
(* The outside world of one run (what each upstream query would answer)    *)
(* is fixed in the initial state: rates, vols, options, futures, page.     *)
(* A price history is the sequence of the Close column of the frame        *)
(* history(period="1d") returns, oldest row first; on an empty frame       *)
(* .iloc[-1] raises IndexError.  An options table is a sequence of rows;   *)
(* on an empty selection .values[0] raises IndexError.  A page that is     *)
(* not up makes requests.get raise.  Nothing in app.py catches any of      *)
(* these.                                                                  *)
(***************************************************************************)
EXTENDS Integers, Sequences, FiniteSets, TLC

VARIABLES
    rates,      \* feed read by get_treasury_spreads: ^TNX, ^FVX, ^IRX closes
    vols,       \* feed read by get_vix_structure: ^VIX, ^VIX9D closes
    options,    \* feed read by get_expected_move: ATM strike, call/put last price
    futures,    \* feed read by get_fair_value: ES=F and ^GSPC closes
    page,       \* feed read by fetch_headlines: the <h3> texts of the page
    keywords,   \* the module global HIGH_IMPACT_KEYWORDS
    pc,         \* position of the run
    locals,     \* main()'s local namespace: name -> value, bound names only
    calls,      \* the functions main() has called so far, in order
    stdout,     \* the console transcript: <<>> until main() prints
    files       \* the file system: file name -> content written

vars == <<rates, vols, options, futures, page, keywords, pc, locals, calls, stdout, files>>

----------------------------------------------------------------------------
(* Bounds and input domains *)

MaxListing == 2                 \* longest <h3> listing drawn

PctDivisor == 100               \* `/ 100` of get_treasury_spreads
MoveThreshold == 5              \* `expected_move < 5` of risk_meter

\* price histories; yields are multiples of PctDivisor
TnxHistories == {<<>>, <<100>>, <<200>>}
FvxHistories == {<<100>>}
IrxHistories == {<<100>>, <<200>>}
VixHistories == {<<>>, <<15>>, <<15, 16>>}
Vix9dHistories == {<<>>, <<15>>, <<16>>}
EsHistories == {<<>>, <<4999>>, <<5000>>, <<5000, 5001>>}
SpxHistories == {<<5000>>}
SpyHistories == {<<499>>}

\* options tables: rows of strike and lastPrice; the two last prices at the
\* strike nearest 499 sum to 4, 5 or 6
Row(strike, lastPrice) == [strike |-> strike, lastPrice |-> lastPrice]
CallTables == {<<>>, <<Row(495, 7), Row(500, 2)>>, <<Row(495, 7), Row(500, 3)>>}
PutTables == {<<Row(495, 1), Row(500, 2)>>, <<Row(495, 1), Row(500, 3)>>}

KwFed == <<"F", "e", "d">>
KwCPI == <<"C", "P", "I">>
KwJobs == <<"J", "o", "b", "s">>
KwPowell == <<"P", "o", "w", "e", "l", "l">>
KwInflation == <<"i", "n", "f", "l", "a", "t", "i", "o", "n">>
KwUnemployment == <<"u", "n", "e", "m", "p", "l", "o", "y", "m", "e", "n", "t">>
KwGDP == <<"G", "D", "P">>

HIGH_IMPACT_KEYWORDS ==
    {KwFed, KwCPI, KwJobs, KwPowell, KwInflation, KwUnemployment, KwGDP}

TextFedCut == <<"F", "e", "d", " ", "c", "u", "t">>     \* contains "Fed"
TextLowerFed == <<"f", "e", "d", " ", "c", "u", "t">>   \* "fed": wrong case
TextGDP == <<"U", "S", " ", "G", "D", "P">>             \* contains "GDP"
TextGD == <<"G", "D", " ", "u", "p">>                   \* a prefix of "GDP" only

Texts == {TextFedCut, TextLowerFed, TextGDP, TextGD}

Listings == UNION {[1..n -> Texts] : n \in 0..MaxListing}

\* keyword settings the filter is exercised with, the shipped one included
KeywordConfigs == (SUBSET {KwFed, KwGDP, <<>>}) \cup {HIGH_IMPACT_KEYWORDS}

RatesFeeds == [tnx : TnxHistories, fvx : FvxHistories, irx : IrxHistories]
VolsFeeds == [vix : VixHistories, vix9d : Vix9dHistories]
OptionsFeeds == [calls : CallTables, puts : PutTables, spy : SpyHistories]
FuturesFeeds == [es : EsHistories, spx : SpxHistories]
PageFeeds == [up : {FALSE}, h3 : {<<>>}] \cup [up : {TRUE}, h3 : Listings]

\* the feeds of a run that calls fetch_headlines alone
NoRates == [tnx |-> <<>>, fvx |-> <<>>, irx |-> <<>>]
NoVols == [vix |-> <<>>, vix9d |-> <<>>]
NoOptions == [calls |-> <<>>, puts |-> <<>>, spy |-> <<>>]
NoFutures == [es |-> <<>>, spx |-> <<>>]

----------------------------------------------------------------------------
(* The functions of app.py.  A fetch returns [ok |-> FALSE] when it raises *)
(* and [ok |-> TRUE, val |-> ...] when it returns.                         *)

Raised == [ok |-> FALSE]
Returned(v) == [ok |-> TRUE, val |-> v]

\* yf.Ticker(sym).history(period="1d").iloc[-1]['Close']
HasLastClose(history) == Len(history) > 0
LastClose(history) == history[Len(history)]

Abs(x) == IF x < 0 THEN -x ELSE x

\* Python tuples are 0-indexed, TLA+ tuples 1-indexed: spreads[1] is val[2].
get_treasury_spreads(feed) ==
    IF ~(HasLastClose(feed.tnx) /\ HasLastClose(feed.fvx) /\ HasLastClose(feed.irx))
    THEN Raised
    ELSE LET tnx == LastClose(feed.tnx) \div PctDivisor
             fvxt == LastClose(feed.fvx) \div PctDivisor
             twxt == LastClose(feed.irx) \div PctDivisor
             spread_2s5s == twxt - fvxt
             spread_2s10s == twxt - tnx
         IN  Returned(<<spread_2s5s, spread_2s10s>>)

\* mutant: the difference taken the wrong way round
get_vix_structure_swapped(feed) ==
    IF ~(HasLastClose(feed.vix) /\ HasLastClose(feed.vix9d)) THEN Raised
    ELSE Returned(<<LastClose(feed.vix), LastClose(feed.vix9d),
                    LastClose(feed.vix) - LastClose(feed.vix9d)>>)

get_vix_structure(feed) ==
    IF ~(HasLastClose(feed.vix) /\ HasLastClose(feed.vix9d)) THEN Raised
    ELSE LET vix == LastClose(feed.vix)
             vix9d == LastClose(feed.vix9d)
             term_structure == vix9d - vix
         IN  Returned(<<vix, vix9d, term_structure>>)

\* table[table['strike'] == strike]: the rows at that strike, in table order
RowsAt(table, strike) == SelectSeq(table, LAMBDA row : row.strike = strike)

\* calls.iloc[(calls['strike'] - price).abs().argsort()[:1]]: the first row
\* among those nearest the price
NearestRow(table, price) ==
    CHOOSE i \in DOMAIN table :
        \A j \in DOMAIN table :
            \/ Abs(table[i].strike - price) < Abs(table[j].strike - price)
            \/ Abs(table[i].strike - price) = Abs(table[j].strike - price) /\ i <= j

get_expected_move(feed) ==
    IF ~HasLastClose(feed.spy) \/ feed.calls = <<>> THEN Raised
    ELSE LET underlying_price == LastClose(feed.spy)
             atm_strike == feed.calls[NearestRow(feed.calls, underlying_price)].strike
         IN  IF RowsAt(feed.puts, atm_strike) = <<>> THEN Raised
             ELSE LET call_price == RowsAt(feed.calls, atm_strike)[1].lastPrice
                      put_price == RowsAt(feed.puts, atm_strike)[1].lastPrice
                      expected_move == call_price + put_price
                  IN  Returned(<<expected_move, atm_strike>>)

get_fair_value(feed) ==
    IF ~(HasLastClose(feed.es) /\ HasLastClose(feed.spx)) THEN Raised
    ELSE LET es == LastClose(feed.es)
             spx == LastClose(feed.spx)
             premium_discount == es - spx
         IN  Returned(premium_discount)

\* Python's `keyword in text` on str: a case-sensitive scan of every offset.
KeywordIn(keyword, text) ==
    \E i \in 0..(Len(text) - Len(keyword)) :
        \A k \in 1..Len(keyword) : text[i + k] = keyword[k]

\* mutant: all() where the code has any()
AllKeywords(kws, text) == \A keyword \in kws : KeywordIn(keyword, text)

\* any(keyword in text for keyword in HIGH_IMPACT_KEYWORDS)
AnyKeyword(kws, text) == \E keyword \in kws : KeywordIn(keyword, text)

\* the loop of fetch_headlines over soup.find_all('h3')
RECURSIVE HeadlineLoop(_, _, _, _)
HeadlineLoop(h3, kws, i, headlines) ==
    IF i > Len(h3) THEN headlines
    ELSE HeadlineLoop(h3, kws, i + 1,
            IF AnyKeyword(kws, h3[i])
            THEN Append(headlines, h3[i])
            ELSE headlines)

\* mutant: a failed page request is swallowed and an empty list returned
fetch_headlines_swallow(feed, kws) ==
    IF ~feed.up THEN Returned(<<>>)
    ELSE Returned(HeadlineLoop(feed.h3, kws, 1, <<>>))

fetch_headlines(feed, kws) ==
    IF ~feed.up THEN Raised
    ELSE Returned(HeadlineLoop(feed.h3, kws, 1, <<>>))

\* mutant: a steep curve counted twice
YieldTermDouble(spread_2s10s) == IF spread_2s10s > 0 THEN 2 ELSE -1

\* mutant: the boundary expected_move = 5 counted as favourable
MoveTermLe(expected_move) == IF expected_move <= MoveThreshold THEN 1 ELSE -1

YieldTerm(spread_2s10s) == IF spread_2s10s > 0 THEN 1 ELSE -1
VixTerm(term_structure) == IF term_structure > 0 THEN 1 ELSE -1
MoveTerm(expected_move) == IF expected_move < MoveThreshold THEN 1 ELSE -1
BasisTerm(premium_discount) == IF premium_discount > 0 THEN 1 ELSE -1

risk_meter(spreads, vix_struct, expected_move, premium_discount) ==
    LET p0 == 0
        p1 == p0 + YieldTerm(spreads[2])
        p2 == p1 + VixTerm(vix_struct[3])
        p3 == p2 + MoveTerm(expected_move)
        p4 == p3 + BasisTerm(premium_discount)
    IN  p4

\* mutant: a score of 0 labelled Risk-On in the report
HtmlLabelGe(risk_score) == IF risk_score >= 0 THEN "Risk-On" ELSE "Risk-Off"

ConsoleLabel(risk_score) == IF risk_score > 0 THEN "Risk-On" ELSE "Risk-Off"
HtmlLabel(risk_score) == IF risk_score > 0 THEN "Risk-On" ELSE "Risk-Off"

ReportFile == "dashboard_report.html"

----------------------------------------------------------------------------
(* main(): one action per statement *)

Bind(name, v) == (name :> v) @@ locals
IsBound(name) == name \in DOMAIN locals

NoOutput == UNCHANGED <<stdout, files>>
World == <<rates, vols, options, futures, page, keywords>>

Init ==
    /\ rates \in RatesFeeds
    /\ vols \in VolsFeeds
    /\ options \in OptionsFeeds
    /\ futures \in FuturesFeeds
    /\ page \in PageFeeds
    /\ keywords = HIGH_IMPACT_KEYWORDS
    /\ pc = "spreads"
    /\ locals = <<>>
    /\ calls = <<>>
    /\ stdout = <<>>
    /\ files = <<>>

MainSpreads ==
    /\ pc = "spreads"
    /\ calls' = Append(calls, "get_treasury_spreads")
    /\ LET r == get_treasury_spreads(rates)
       IN  IF r.ok
           THEN locals' = Bind("spreads", r.val) /\ pc' = "vix"
           ELSE locals' = locals /\ pc' = "raised"
    /\ NoOutput /\ UNCHANGED World

MainVix ==
    /\ pc = "vix"
    /\ calls' = Append(calls, "get_vix_structure")
    /\ LET r == get_vix_structure(vols)
       IN  IF r.ok
           THEN locals' = Bind("vix_struct", r.val) /\ pc' = "move"
           ELSE locals' = locals /\ pc' = "raised"
    /\ NoOutput /\ UNCHANGED World

MainMove ==
    /\ pc = "move"
    /\ calls' = Append(calls, "get_expected_move")
    /\ LET r == get_expected_move(options)
       IN  IF r.ok
           THEN /\ locals' = ("expected_move" :> r.val[1]) @@ ("atm_strike" :> r.val[2]) @@ locals
                /\ pc' = "fair"
           ELSE locals' = locals /\ pc' = "raised"
    /\ NoOutput /\ UNCHANGED World

MainFair ==
    /\ pc = "fair"
    /\ calls' = Append(calls, "get_fair_value")
    /\ LET r == get_fair_value(futures)
       IN  IF r.ok
           THEN locals' = Bind("premium_discount", r.val) /\ pc' = "headlines"
           ELSE locals' = locals /\ pc' = "raised"
    /\ NoOutput /\ UNCHANGED World

MainHeadlines ==
    /\ pc = "headlines"
    /\ calls' = Append(calls, "fetch_headlines")
    /\ LET r == fetch_headlines(page, keywords)
       IN  IF r.ok
           THEN locals' = Bind("headlines", r.val) /\ pc' = "data"
           ELSE locals' = locals /\ pc' = "raised"
    /\ NoOutput /\ UNCHANGED World

MainData ==
    /\ pc = "data"
    /\ locals' = Bind("data",
          [spread_2s5s |-> locals["spreads"][1],
           spread_2s10s |-> locals["spreads"][2],
           vix |-> locals["vix_struct"][1],
           vix9d |-> locals["vix_struct"][2],
           term_structure |-> locals["vix_struct"][3],
           expected_move |-> locals["expected_move"],
           atm_strike |-> locals["atm_strike"],
           premium_discount |-> locals["premium_discount"]])
    /\ pc' = "score"
    /\ UNCHANGED calls
    /\ NoOutput /\ UNCHANGED World

MainScore ==
    /\ pc = "score"
    /\ calls' = Append(calls, "risk_meter")
    /\ locals' = Bind("risk_score",
          risk_meter(locals["spreads"], locals["vix_struct"],
                     locals["expected_move"], locals["premium_discount"]))
    /\ pc' = "print"
    /\ NoOutput /\ UNCHANGED World

\* the transcript: the metric lines, the score line with its label, one
\* bullet per headline
MainPrint ==
    /\ pc = "print"
    /\ calls' = Append(calls, "print")
    /\ stdout' = <<[metrics |-> locals["data"],
                    risk_score |-> locals["risk_score"],
                    label |-> ConsoleLabel(locals["risk_score"]),
                    bullets |-> locals["headlines"]]>>
    /\ pc' = "html"
    /\ UNCHANGED <<locals, files>> /\ UNCHANGED World

generate_html(data, risk_score, headlines) ==
    (ReportFile :> [metrics |-> data,
                    risk_score |-> risk_score,
                    label |-> HtmlLabel(risk_score),
                    items |-> headlines]) @@ files

MainHtml ==
    /\ pc = "html"
    /\ calls' = Append(calls, "generate_html")
    /\ files' = generate_html(locals["data"], locals["risk_score"], locals["headlines"])
    /\ pc' = "done"
    /\ UNCHANGED <<locals, stdout>> /\ UNCHANGED World

Next ==
    \/ MainSpreads
    \/ MainVix
    \/ MainMove
    \/ MainFair
    \/ MainHeadlines
    \/ MainData
    \/ MainScore
    \/ MainPrint
    \/ MainHtml

Spec == Init /\ [][Next]_vars

----------------------------------------------------------------------------
(* fetch_headlines on its own, over every keyword setting *)

InitFilter ==
    /\ rates = NoRates
    /\ vols = NoVols
    /\ options = NoOptions
    /\ futures = NoFutures
    /\ page \in PageFeeds
    /\ keywords \in KeywordConfigs
    /\ pc = "filter"
    /\ locals = <<>>
    /\ calls = <<>>
    /\ stdout = <<>>
    /\ files = <<>>

CallFetchHeadlines ==
    /\ pc = "filter"
    /\ calls' = Append(calls, "fetch_headlines")
    /\ LET r == fetch_headlines(page, keywords)
       IN  IF r.ok
           THEN locals' = Bind("headlines", r.val) /\ pc' = "filtered"
           ELSE locals' = locals /\ pc' = "raised"
    /\ NoOutput /\ UNCHANGED World

NextFilter == CallFetchHeadlines

SpecFilter == InitFilter /\ [][NextFilter]_vars

----------------------------------------------------------------------------
(* Properties *)

Ended == pc \in {"done", "raised"}
Scored == IsBound("risk_score")
ReportWritten == ReportFile \in DOMAIN files
QuoteFetches ==
    {"get_treasury_spreads", "get_vix_structure", "get_expected_move", "get_fair_value"}
Called(f) == \E i \in DOMAIN calls : calls[i] = f
\* what each fetch of this run answers, given the feeds
SpreadsOk == get_treasury_spreads(rates).ok
VixOk == get_vix_structure(vols).ok
MoveOk == get_expected_move(options).ok
FairOk == get_fair_value(futures).ok
HeadlinesOk == page.up
AllQuotesUp == SpreadsOk /\ VixOk /\ MoveOk /\ FairOk
AllQuotesDown == ~SpreadsOk /\ ~VixOk /\ ~MoveOk /\ ~FairOk

\* C1: every run that has ended has produced a risk score and a
\* classification, whatever subset of the four quote fetches failed; with
\* all four failed the score is 0 and the classification Risk-Off.
C1_RunAlwaysAssessed ==
    Ended =>
        /\ Scored
        /\ stdout # <<>>
        /\ AllQuotesDown =>
              /\ locals["risk_score"] = 0
              /\ stdout[1].label = "Risk-Off"

\* C2: a failed quote fetch stops nothing: in every ended run all four quote
\* fetches were attempted, the snapshot was built, and it holds the fields
\* of every fetch that succeeded.
C2_FailuresIsolated ==
    Ended =>
        /\ \A f \in QuoteFetches : Called(f)
        /\ pc # "raised"
        /\ IsBound("data")
        /\ SpreadsOk => locals["data"].spread_2s10s = get_treasury_spreads(rates).val[2]
        /\ VixOk => locals["data"].term_structure = get_vix_structure(vols).val[3]
        /\ MoveOk => locals["data"].expected_move = get_expected_move(options).val[1]
        /\ FairOk => locals["data"].premium_discount = get_fair_value(futures).val

\* C3: when the page request fails and the four quote fetches succeed, the
\* headline fetch returns an empty list and the run still computes and
\* reports the risk score.
C3_HeadlineFailureRecovered ==
    (Ended /\ ~HeadlinesOk /\ AllQuotesUp) =>
        /\ IsBound("headlines")
        /\ locals["headlines"] = <<>>
        /\ Scored
        /\ stdout # <<>>

\* C4: when the expected-move fetch fails and the other three signals are
\* each favourable, the missing signal abstains: the run ends with score 3
\* and classification Risk-On.
C4_MissingSignalAbstains ==
    (/\ Ended
     /\ ~MoveOk /\ SpreadsOk /\ VixOk /\ FairOk /\ HeadlinesOk
     /\ get_treasury_spreads(rates).val[2] > 0
     /\ get_vix_structure(vols).val[3] > 0
     /\ get_fair_value(futures).val > 0) =>
        /\ Scored
        /\ locals["risk_score"] = 3
        /\ stdout # <<>>
        /\ stdout[1].label = "Risk-On"

\* C5: with all four scored fields present the score is the sum of four
\* independent terms: +1 if spread_2s10s > 0 else -1, +1 if term_structure
\* > 0 else -1, +1 if expected_move < 5 else -1, +1 if premium_discount > 0
\* else -1; so the boundary values (0, 0, 5, 0) give -4 and four favourable
\* readings give +4.
C5_ScoreIsSumOfFourTerms ==
    Scored =>
        LET d == locals["data"]
            s == locals["risk_score"]
            fav == <<d.spread_2s10s > 0, d.term_structure > 0,
                     d.expected_move < 5, d.premium_discount > 0>>
            nfav == Cardinality({i \in 1..4 : fav[i]})
        IN  /\ s = nfav - (4 - nfav)
            /\ (d.spread_2s10s = 0 /\ d.term_structure = 0
                  /\ d.expected_move = 5 /\ d.premium_discount = 0) => s = -4
            /\ (\A i \in 1..4 : fav[i]) => s = 4
            /\ (\A i \in 1..4 : ~fav[i]) => s = -4

C5_Witness ==
    /\ Scored
    /\ locals["data"].spread_2s10s = 0
    /\ locals["data"].term_structure = 0
    /\ locals["data"].expected_move = 5
    /\ locals["data"].premium_discount = 0
    /\ locals["risk_score"] = -4

\* C6: every score is the sum of exactly four terms, each in {-1, 0, 1},
\* and so lies in -4..4.
C6_ScoreInRange ==
    Scored =>
        LET terms == <<YieldTerm(locals["spreads"][2]),
                       VixTerm(locals["vix_struct"][3]),
                       MoveTerm(locals["expected_move"]),
                       BasisTerm(locals["premium_discount"])>>
        IN  /\ \A i \in 1..4 : terms[i] \in {-1, 0, 1}
            /\ locals["risk_score"] = terms[1] + terms[2] + terms[3] + terms[4]
            /\ locals["risk_score"] \in -4..4

C6_Witness == Scored /\ locals["risk_score"] = 4

\* C7: the label shown is Risk-On exactly when the score is > 0 and
\* Risk-Off otherwise (0 included), in the console transcript and in the
\* report, and the two agree within one run.
C7_LabelFollowsScore ==
    /\ stdout # <<>> =>
          /\ stdout[1].risk_score = locals["risk_score"]
          /\ stdout[1].label = "Risk-On" <=> stdout[1].risk_score > 0
          /\ stdout[1].label = "Risk-Off" <=> stdout[1].risk_score <= 0
    /\ ReportWritten =>
          /\ files[ReportFile].risk_score = locals["risk_score"]
          /\ files[ReportFile].label = "Risk-On" <=> files[ReportFile].risk_score > 0
          /\ files[ReportFile].label = "Risk-Off" <=> files[ReportFile].risk_score <= 0
          /\ files[ReportFile].label = stdout[1].label

C7_Witness ==
    /\ ReportWritten
    /\ files[ReportFile].risk_score = 0
    /\ files[ReportFile].label = "Risk-Off"
    /\ stdout[1].label = "Risk-Off"

\* C8: the list fetch_headlines returns is a subsequence of the page's
\* headline texts in page order with duplicates kept, each returned text
\* has a configured keyword as a case-sensitive substring, every page text
\* that has one is returned, and with no keyword configured nothing is
\* returned.
C8_HeadlinesFiltered ==
    pc = "filtered" =>
        LET in == page.h3
            out == locals["headlines"]
            \* t = prefix \o k \o suffix
            Within(k, t) ==
                \E a \in 0..Len(t) : \E b \in a..Len(t) : SubSeq(t, a + 1, b) = k
            Matching == {i \in DOMAIN in : \E k \in keywords : Within(k, in[i])}
        IN  /\ \E f \in [DOMAIN out -> DOMAIN in] :
                  /\ \A i \in DOMAIN out : out[i] = in[f[i]]
                  /\ \A i, j \in DOMAIN out : i < j => f[i] < f[j]
            /\ \A i \in DOMAIN out : \E k \in keywords : Within(k, out[i])
            /\ Len(out) = Cardinality(Matching)
            /\ keywords = {} => out = <<>>

C8_Witness ==
    /\ pc = "filtered"
    /\ keywords = HIGH_IMPACT_KEYWORDS
    /\ page.h3 = <<TextFedCut, TextFedCut>>
    /\ locals["headlines"] = <<TextFedCut, TextFedCut>>

\* C9: in every snapshot term_structure is vix9d - vix of the two closes
\* fetched, the value risk_meter is given is that same value, and when the
\* volatility closes are missing no snapshot carries a term structure.
C9_TermStructureDerived ==
    /\ IsBound("data") =>
          /\ vols.vix # <<>> /\ vols.vix9d # <<>>
          /\ locals["data"].vix = vols.vix[Len(vols.vix)]
          /\ locals["data"].vix9d = vols.vix9d[Len(vols.vix9d)]
          /\ locals["data"].term_structure = locals["data"].vix9d - locals["data"].vix
          /\ locals["vix_struct"][3] = locals["data"].term_structure
    /\ (vols.vix = <<>> \/ vols.vix9d = <<>>) =>
          ~IsBound("vix_struct") /\ ~IsBound("data")

C9_Witness ==
    /\ Scored
    /\ locals["data"].vix = 16
    /\ locals["data"].vix9d = 15
    /\ locals["data"].term_structure = -1

\* C10: the calls of a run are a prefix of spreads, vol structure, expected
\* move, futures basis, headlines, risk_meter, console, report; the score
\* exists only after all five fetches returned; console and report exist
\* only after the score; and a run in which a fetch raised ended at that
\* fetch with no score, no transcript and no report.
CallOrder ==
    <<"get_treasury_spreads", "get_vix_structure", "get_expected_move",
      "get_fair_value", "fetch_headlines", "risk_meter", "print", "generate_html">>

C10_FixedOrderFailFast ==
    LET ok == <<SpreadsOk, VixOk, MoveOk, FairOk, HeadlinesOk>>
        fetched == {"spreads", "vix_struct", "expected_move", "atm_strike",
                    "premium_discount", "headlines"}
    IN  /\ Len(calls) <= Len(CallOrder)
        /\ calls = SubSeq(CallOrder, 1, Len(calls))
        /\ (Scored \/ Called("risk_meter")) =>
              /\ \A i \in 1..5 : ok[i]
              /\ fetched \subseteq DOMAIN locals
              /\ Len(calls) >= 6
        /\ stdout # <<>> => Scored /\ Len(calls) >= 7
        /\ ReportWritten => Scored /\ stdout # <<>> /\ Len(calls) = 8
        /\ pc = "raised" =>
              /\ Len(calls) \in 1..5
              /\ ~ok[Len(calls)]
              /\ \A i \in 1..(Len(calls) - 1) : ok[i]
        /\ (\E i \in 1..5 : ~ok[i]) =>
              /\ ~Scored
              /\ stdout = <<>>
              /\ files = <<>>
              /\ pc \notin {"data", "score", "print", "html", "done"}

C10_Witness ==
    /\ pc = "raised"
    /\ calls = SubSeq(CallOrder, 1, 5)
    /\ ~page.up
    /\ ~Scored

====
